---- MODULE Spec2Model ----
(***************************************************************************)
(* A model of the cn-agent machine_migrate task                            *)
(* (lib/backends/smartos/tasks/machine_migrate.js).                        *)
(*                                                                         *)
(* One task instance is modelled: the payload it was constructed with, the *)
(* dispatcher start(), and the behaviours start() selects.  Every callback *)
(* of the single-threaded event loop is one action.                        *)
(*                                                                         *)
(* Strings are sequences of atoms: an atom is a run of characters that no  *)
(* operation of the model needs to look inside (a word, a path segment, a  *)
(* single space).  split(' ') and indexOf() work on atom sequences.        *)
(* Buffers are sequences of byte values.                                   *)
(***************************************************************************)
EXTENDS Integers, Sequences, FiniteSets, TLC

(***************************************************************************)
(* Bounds of the model                                                     *)
(***************************************************************************)
\* number of stderr 'data' events delivered to one session
MaxFragments == 3
\* number of IPC messages a worker may send before it exits
MaxMessages == 2
\* number of disks of the vm in an estimate payload
MaxDisks == 1

(***************************************************************************)
(* JavaScript values                                                       *)
(***************************************************************************)
Undefined == [t |-> "undefined"]
Null == [t |-> "null"]
Num(n) == [t |-> "number", v |-> n]
Str(s) == [t |-> "string", v |-> s]

\* !x for the values the model uses
Falsy(x) ==
    \/ x.t \in {"undefined", "null"}
    \/ x.t = "number" /\ x.v = 0
    \/ x.t = "string" /\ x.v = <<>>

\* a === b
StrictEq(a, b) == a = b

\* decimal digits of a number, as one atom
Digits(n) == ToString(n)

\* util.format's %s of a primitive value
FormatS(x) ==
    CASE x.t = "undefined" -> <<"undefined">>
      [] x.t = "null" -> <<"null">>
      [] x.t = "number" -> <<Digits(x.v)>>
      [] x.t = "string" -> x.v

\* haystack.indexOf(needle) === -1, on atom sequences
NotFound(haystack, needle) ==
    \A i \in 1..(Len(haystack) - Len(needle) + 1) :
        SubSeq(haystack, i, i + Len(needle) - 1) # needle

Contains(haystack, needle) == ~NotFound(haystack, needle)

\* index of the first " " atom of s, or 0
FirstSpace(s) ==
    IF \E i \in 1..Len(s) : s[i] = " "
    THEN CHOOSE i \in 1..Len(s) : s[i] = " " /\ \A j \in 1..(i - 1) : s[j] # " "
    ELSE 0

\* s.split(' '): the pieces between single spaces, empty pieces included
RECURSIVE SplitSpace(_)
SplitSpace(s) ==
    IF FirstSpace(s) = 0
    THEN <<s>>
    ELSE <<SubSeq(s, 1, FirstSpace(s) - 1)>>
             \o SplitSpace(SubSeq(s, FirstSpace(s) + 1, Len(s)))

\* a[i] of a JavaScript array of strings: undefined past the end
ArrayAt(a, i) == IF i + 1 <= Len(a) THEN Str(a[i + 1]) ELSE Undefined

(***************************************************************************)
(* Calls on the task: task.finish(result), task.fatal(message, detail)     *)
(***************************************************************************)
FinishCall(result) == [fn |-> "finish", arg |-> result, detail |-> Undefined]
FatalCall(msg, detail) == [fn |-> "fatal", arg |-> msg, detail |-> detail]

(***************************************************************************)
(* State                                                                   *)
(***************************************************************************)
VARIABLES
    payload,          \* this.req.params
    started,          \* start() has run
    calls,            \* the task.finish / task.fatal calls made so far, in order
    crashed,          \* an exception left a callback uncaught
    invoked,          \* the functions start() called, in order
    \* ---- startChildProcess
    worker,           \* "none", "running", "exited" ('exit' not yet emitted), "reaped"
    binfn,            \* the program handed to child_process.fork
    ipc,              \* messages the worker sent that were not yet emitted
    nSent,            \* number of messages the worker sent
    exitStatus,       \* <<code, signal>> of the worker's exit
    handledResponse,  \* var handledResponse
    onceCalled,       \* the once() wrapper of the message handler has fired
    disconnects,      \* number of migrateProcess.disconnect() calls
    limitedStderr,    \* var limitedStderr: [defined, bytes]
    stderrTotal,      \* number of bytes the worker wrote to stderr so far
    nFrags,           \* number of stderr 'data' events so far
    errorEvent,       \* the 'error' event of the worker: none/pending/logged
    \* ---- killChild
    probes,           \* what the probes of killChild returned in this run
    sysops,           \* probes made and signals sent by killChild, in order
    \* ---- estimate
    datasets,         \* var datasets
    estimatedSize,    \* var estimatedSize
    pipe,             \* per dataset: the state of its estimateOneDataset pipeline
    par,              \* vasync.forEachParallel: status and error per input, ndone
    snapExists,       \* per dataset: its estimate snapshot exists in the pool
    \* ---- removeSyncSnapshots, setupFilesystem, setDoNotInventory, setAutoboot
    execs,            \* the commands run with execFileSync, in order
    marker,           \* the marker file as fs.accessSync found it
    sync,             \* per dataset: the state of its destroySyncSnapshots pipeline
    \* ---- the task object and AgentsSharInstallTask
    task,             \* the task class that was constructed for the request
    shar              \* the install pipeline: its step and what it did, in order

taskVars == <<payload, started, invoked, calls, crashed>>
childVars == <<worker, binfn, ipc, nSent, exitStatus, handledResponse,
               onceCalled, disconnects, limitedStderr, stderrTotal, nFrags,
               errorEvent>>
killVars == <<probes, sysops>>
estVars == <<datasets, estimatedSize, pipe, par, snapExists>>
helperVars == <<execs, marker, sync>>
sharVars == <<task, shar>>
vars == <<taskVars, childVars, killVars, estVars, helperVars, sharVars>>

(***************************************************************************)
(* startChildProcess: the ChildProcessSession                              *)
(***************************************************************************)
\* process.pid of the agent process that runs the task
ProcessPid == Num(77)

\* __dirname of machine_migrate.js, as one atom
Dirname == "/opt/smartdc/agents/lib/node_modules/cn-agent/lib/backends/smartos/tasks"

\* var binfn (lines 41-44)
Binfn(action) ==
    IF action = "receive"
    THEN <<Dirname, "/../bin", "/machine-migrate", "-receive", ".js">>
    ELSE <<Dirname, "/../bin", "/machine-migrate", "-send", ".js">>

\* A buffer is kept run-length encoded: a sequence of runs, each the bytes
\* lo..hi (counted from 1) of the worker's stderr stream or of the elision
\* marker.  The bytes lo..hi of the stderr stream:
StreamBytes(lo, hi) ==
    IF lo > hi THEN <<>> ELSE <<[src |-> "stderr", lo |-> lo, hi |-> hi]>>

\* Buffer.from('\n...\n'): five bytes
ElisionMarker == <<[src |-> "marker", lo |-> 1, hi |-> 5]>>

HeadBytes == 2500
TailBytes == 2500
StderrLimit == 5000

\* buf.length
RECURSIVE BufLen(_)
BufLen(buf) ==
    IF buf = <<>> THEN 0 ELSE (buf[1].hi - buf[1].lo + 1) + BufLen(Tail(buf))

\* Buffer.concat([a, b]); two runs that continue one another become one
Concat(a, b) ==
    IF a # <<>> /\ b # <<>> /\ a[Len(a)].src = b[1].src
                /\ a[Len(a)].hi + 1 = b[1].lo
    THEN SubSeq(a, 1, Len(a) - 1)
            \o <<[a[Len(a)] EXCEPT !.hi = b[1].hi]>> \o Tail(b)
    ELSE a \o b

\* the bytes begin+1..end of buf, for 0 <= begin <= end <= buf.length
RECURSIVE Bytes(_, _, _)
Bytes(buf, begin, end) ==
    IF buf = <<>> \/ begin >= end THEN <<>>
    ELSE LET n == buf[1].hi - buf[1].lo + 1
         IN  IF begin >= n
             THEN Bytes(Tail(buf), begin - n, end - n)
             ELSE Concat(<<[buf[1] EXCEPT !.lo = @ + begin,
                                         !.hi = IF end < n THEN buf[1].lo + end - 1
                                                ELSE @]>>,
                         Bytes(Tail(buf), 0, end - n))

\* buf.slice(begin, end) for 0 <= begin: both ends are clamped to the length
SliceFrom(buf, begin, end) ==
    Bytes(buf, IF begin < BufLen(buf) THEN begin ELSE BufLen(buf),
               IF end < BufLen(buf) THEN end ELSE BufLen(buf))

\* buf.slice(-n): the last n bytes, the whole buffer when it is shorter
SliceLast(buf, n) ==
    Bytes(buf, IF BufLen(buf) > n THEN BufLen(buf) - n ELSE 0, BufLen(buf))

\* a limit that keeps whatever follows the first 2500 bytes
LimitStderr_KeepRest(buf) ==
    IF BufLen(buf) > StderrLimit
    THEN Concat(Concat(SliceFrom(buf, 0, HeadBytes), ElisionMarker),
                SliceFrom(buf, TailBytes, BufLen(buf)))
    ELSE buf

\* a handler that keeps all it was given
LimitStderr_NoLimit(buf) == buf

\* lines 87-93: keep the first 2500 and the last 2500 bytes
LimitStderr(buf) ==
    IF BufLen(buf) > StderrLimit
    THEN Concat(Concat(SliceFrom(buf, 0, HeadBytes), ElisionMarker),
                SliceLast(buf, TailBytes))
    ELSE buf

\* lines 82-86: the buffer with fragment buf appended
AppendStderr(cur, buf) ==
    IF ~cur.defined THEN buf ELSE Concat(cur.bytes, buf)

\* String(limitedStderr): the text 'undefined' when nothing was captured,
\* else the text the bytes decode to
StringOfStderr(cur) ==
    IF ~cur.defined
    THEN [text |-> <<"undefined">>, decoded |-> <<>>]
    ELSE [text |-> <<>>, decoded |-> cur.bytes]

\* the sizes of the stderr fragments the model delivers
FragSizes == {1, 2500, 2600, 6000}

\* the result messages a worker may send (the worker never sets ppid)
ResultMessages ==
    {[id |-> k, error |-> e, ppid |-> Undefined] :
        k \in 1..MaxMessages,
        e \in {Undefined, [message |-> <<"sync failed">>]}}

\* <<code, signal>> of a worker exit
ExitStatuses ==
    {<<Num(0), Null>>, <<Num(1), Null>>, <<Null, Str(<<"SIGTERM">>)>>}

\* an exit handler that passes no detail
ExitFatalCall_NoDetail(code, signal, stderr) ==
    FatalCall(<<"machine-migrate exit error (code ">> \o FormatS(code)
                  \o <<", signal ">> \o FormatS(signal) \o <<")">>,
              Undefined)

\* lines 99-102: the fatal call of the exit handler
ExitFatalCall(code, signal, stderr) ==
    FatalCall(<<"machine-migrate exit error (code ">> \o FormatS(code)
                  \o <<", signal ">> \o FormatS(signal) \o <<")">>,
              StringOfStderr(stderr))

\* a message handler that hands the message on as it came
MessageCall_NoPpid(result) ==
    IF result.error # Undefined
    THEN FatalCall(result.error.message, Undefined)
    ELSE FinishCall(result)

\* lines 62-72: the completion call of the message handler
MessageCall(result) ==
    IF result.error # Undefined
    THEN FatalCall(result.error.message, Undefined)
    ELSE FinishCall([result EXCEPT !.ppid = ProcessPid])

\* lines 36-122: fork the worker, register the handlers, send the initiation
\* message.  child_process.fork either spawns the worker or, when the spawn
\* fails, returns a ChildProcess that emits 'error' and never 'exit'
startChildProcess ==
    /\ binfn' = Binfn(payload.action)
    /\ \/ worker' = "running" /\ errorEvent' = "none"
       \/ worker' = "failed" /\ errorEvent' = "pending"
    /\ UNCHANGED <<calls, crashed, ipc, nSent, exitStatus, handledResponse,
                   onceCalled, disconnects, limitedStderr, stderrTotal,
                   nFrags, killVars, estVars, helperVars, sharVars>>

\* the worker calls process.send(result)
WorkerSend ==
    /\ worker = "running"
    /\ nSent < MaxMessages
    /\ \E m \in ResultMessages :
          /\ m.id = nSent + 1
          /\ ipc' = Append(ipc, m)
    /\ nSent' = nSent + 1
    /\ UNCHANGED <<taskVars, worker, binfn, exitStatus, handledResponse,
                   onceCalled, disconnects, limitedStderr, stderrTotal,
                   nFrags, errorEvent, killVars, estVars, helperVars, sharVars>>

\* the worker process ends
WorkerExit ==
    /\ worker = "running"
    /\ worker' = "exited"
    /\ \E st \in ExitStatuses : exitStatus' = st
    /\ UNCHANGED <<taskVars, binfn, ipc, nSent, handledResponse, onceCalled,
                   disconnects, limitedStderr, stderrTotal, nFrags, errorEvent,
                   killVars, estVars, helperVars, sharVars>>

\* the IPC channel of the running worker breaks: the ChildProcess will emit
\* 'error'
WorkerIpcError ==
    /\ worker = "running"
    /\ errorEvent = "none"
    /\ errorEvent' = "pending"
    /\ UNCHANGED <<taskVars, worker, binfn, ipc, nSent, exitStatus,
                   handledResponse, onceCalled, disconnects, limitedStderr,
                   stderrTotal, nFrags, killVars, estVars, helperVars, sharVars>>

\* a 'message' handler registered without once()
OnMessage_NoOnce ==
    /\ ~crashed
    /\ worker # "none"
    /\ ipc # <<>>
    /\ ipc' = Tail(ipc)
    /\ onceCalled' = TRUE
    /\ handledResponse' = TRUE
    /\ disconnects' = disconnects + 1
    /\ calls' = Append(calls, MessageCall(Head(ipc)))
    /\ UNCHANGED <<payload, started, invoked, crashed, worker, binfn, nSent,
                   exitStatus, limitedStderr, stderrTotal, nFrags, errorEvent,
                   killVars, estVars, helperVars, sharVars>>

\* lines 56-73: a 'message' event; once() runs the handler for the first only
OnMessage ==
    /\ ~crashed
    /\ worker # "none"
    /\ ipc # <<>>
    /\ ipc' = Tail(ipc)
    /\ IF onceCalled
       THEN UNCHANGED <<calls, handledResponse, onceCalled, disconnects>>
       ELSE /\ onceCalled' = TRUE
            /\ handledResponse' = TRUE
            /\ disconnects' = disconnects + 1
            /\ calls' = Append(calls, MessageCall(Head(ipc)))
    /\ UNCHANGED <<payload, started, invoked, crashed, worker, binfn, nSent,
                   exitStatus, limitedStderr, stderrTotal, nFrags, errorEvent,
                   killVars, estVars, helperVars, sharVars>>

\* lines 79-94: a stderr 'data' event with a fragment of n bytes
OnStderrData ==
    /\ ~crashed
    /\ worker \notin {"none", "failed"}
    /\ nFrags < MaxFragments
    /\ \E n \in FragSizes :
          /\ stderrTotal' = stderrTotal + n
          /\ limitedStderr' =
                [defined |-> TRUE,
                 bytes |-> LimitStderr(AppendStderr(limitedStderr,
                              StreamBytes(stderrTotal + 1, stderrTotal + n)))]
    /\ nFrags' = nFrags + 1
    /\ UNCHANGED <<taskVars, worker, binfn, ipc, nSent, exitStatus,
                   handledResponse, onceCalled, disconnects, errorEvent,
                   killVars, estVars, helperVars, sharVars>>

\* an 'exit' handler that does not look at handledResponse
OnExit_Unguarded ==
    /\ ~crashed
    /\ worker = "exited"
    /\ worker' = "reaped"
    /\ calls' = Append(calls, ExitFatalCall(exitStatus[1], exitStatus[2],
                                            limitedStderr))
    /\ UNCHANGED <<payload, started, invoked, crashed, binfn, ipc, nSent,
                   exitStatus, handledResponse, onceCalled, disconnects,
                   limitedStderr, stderrTotal, nFrags, errorEvent, killVars,
                   estVars, helperVars, sharVars>>

\* lines 96-104: the 'exit' event
OnExit ==
    /\ ~crashed
    /\ worker = "exited"
    /\ worker' = "reaped"
    /\ calls' = IF ~handledResponse
                THEN Append(calls, ExitFatalCall(exitStatus[1], exitStatus[2],
                                                 limitedStderr))
                ELSE calls
    /\ UNCHANGED <<payload, started, invoked, crashed, binfn, ipc, nSent,
                   exitStatus, handledResponse, onceCalled, disconnects,
                   limitedStderr, stderrTotal, nFrags, errorEvent, killVars,
                   estVars, helperVars, sharVars>>

\* lines 110-112: the 'error' event; the handler writes a log line
OnError ==
    /\ ~crashed
    /\ errorEvent = "pending"
    /\ errorEvent' = "logged"
    /\ UNCHANGED <<taskVars, worker, binfn, ipc, nSent, exitStatus,
                   handledResponse, onceCalled, disconnects, limitedStderr,
                   stderrTotal, nFrags, killVars, estVars, helperVars, sharVars>>

(***************************************************************************)
(* killChild                                                               *)
(***************************************************************************)
\* the atoms of '/machine-migrate.js' (line 192)
WorkerIdentifier == <<"/machine-migrate", ".js">>

\* contents of /proc/<pid>/argv the model reads: the two workers
\* startChildProcess forks, a program named machine-migrate.js, and an
\* unrelated program
ArgvValues ==
    {<<"node", "\\0">> \o Binfn("sync") \o <<"\\0">>,
     <<"node", "\\0">> \o Binfn("receive") \o <<"\\0">>,
     <<"node", "\\0", "/opt/smartdc/agents/bin", "/machine-migrate", ".js", "\\0">>,
     <<"/usr/bin/sleep", "\\0", "600", "\\0">>}

\* what `ps -p <pid> -o ppid= -o zone=` prints for a process with parent ppid
\* in zone zone; ps pads its columns, and format fmt is one of the paddings
PsOutput(ppid, zone, fmt) ==
    CASE fmt = 1 -> <<Digits(ppid), " ", zone, "\n">>
      [] fmt = 2 -> <<Digits(ppid), " ", zone, " ", " ", "\n">>
      [] fmt = 3 -> <<" ", Digits(ppid), " ", " ", " ", zone, "\n">>
      [] fmt = 4 -> <<Digits(ppid), " ", zone>>

PsFormats == {1, 2, 3, 4}

\* before killChild ran
NoProbes ==
    [run |-> FALSE, alive |-> FALSE, psFails |-> FALSE, ppid |-> 0, zone |-> "",
     fmt |-> 1, argvReadable |-> FALSE, argv |-> <<>>, killThrows |-> FALSE]

\* what the probes of one run may find: the process is gone; ps fails; ps
\* reports a parent and a zone and argv cannot be read; argv is read and
\* kill(pid, 'SIGTERM') succeeds or throws
KillEnvs ==
    {[NoProbes EXCEPT !.run = TRUE]}
    \cup {[NoProbes EXCEPT !.run = TRUE, !.alive = TRUE, !.psFails = TRUE]}
    \cup {[NoProbes EXCEPT !.run = TRUE, !.alive = TRUE, !.ppid = pp,
                           !.zone = z, !.fmt = f] :
            pp \in {77, 78}, z \in {"global", "zone1"}, f \in PsFormats}
    \cup {[NoProbes EXCEPT !.run = TRUE, !.alive = TRUE, !.ppid = pp,
                           !.zone = z, !.fmt = f, !.argvReadable = TRUE,
                           !.argv = a[1], !.killThrows = a[2]] :
            pp \in {77, 78}, z \in {"global", "zone1"}, f \in PsFormats,
            a \in ArgvValues \X BOOLEAN}

\* a killChild without the zone check of lines 176-180
KillChildRun_NoZoneCheck(pid, ppid, env) ==
    LET argSplit == SplitSpace(PsOutput(env.ppid, env.zone, env.fmt))
        probed == <<"kill0">>
        listed == <<"kill0", "ps">>
        read == <<"kill0", "ps", "readargv">>
    IN  IF ~env.alive
        THEN [ops |-> probed, call |-> FinishCall(Undefined)]
        ELSE IF env.psFails
        THEN [ops |-> listed, call |-> FinishCall(Undefined)]
        ELSE IF ~StrictEq(ArrayAt(argSplit, 0), ppid)
        THEN [ops |-> listed, call |-> FinishCall(Undefined)]
        ELSE IF ~env.argvReadable
        THEN [ops |-> read, call |-> FinishCall(Undefined)]
        ELSE IF NotFound(env.argv, WorkerIdentifier)
        THEN [ops |-> read, call |-> FinishCall(Undefined)]
        ELSE [ops |-> read \o <<"SIGTERM">>, call |-> FinishCall(Undefined)]

\* a killChild that fails the task when process.kill(pid, 'SIGTERM') throws
KillChildRun_FatalOnThrow(pid, ppid, env) ==
    LET argSplit == SplitSpace(PsOutput(env.ppid, env.zone, env.fmt))
        probed == <<"kill0">>
        listed == <<"kill0", "ps">>
        read == <<"kill0", "ps", "readargv">>
    IN  IF ~env.alive
        THEN [ops |-> probed, call |-> FinishCall(Undefined)]
        ELSE IF env.psFails
        THEN [ops |-> listed, call |-> FinishCall(Undefined)]
        ELSE IF ~StrictEq(ArrayAt(argSplit, 0), ppid)
        THEN [ops |-> listed, call |-> FinishCall(Undefined)]
        ELSE IF ~StrictEq(ArrayAt(argSplit, 1), Str(<<"global">>))
        THEN [ops |-> listed, call |-> FinishCall(Undefined)]
        ELSE IF ~env.argvReadable
        THEN [ops |-> read, call |-> FinishCall(Undefined)]
        ELSE IF NotFound(env.argv, WorkerIdentifier)
        THEN [ops |-> read, call |-> FinishCall(Undefined)]
        ELSE [ops |-> read \o <<"SIGTERM">>,
              call |-> IF env.killThrows
                       THEN FatalCall(<<"kill failed">>, Undefined)
                       ELSE FinishCall(Undefined)]

\* lines 138-207: killChild once a pid was supplied: the probes made (ops) and
\* the completion call
KillChildRun(pid, ppid, env) ==
    LET argSplit == SplitSpace(PsOutput(env.ppid, env.zone, env.fmt))
        probed == <<"kill0">>
        listed == <<"kill0", "ps">>
        read == <<"kill0", "ps", "readargv">>
    IN  IF ~env.alive
        THEN [ops |-> probed, call |-> FinishCall(Undefined)]
        ELSE IF env.psFails
        THEN [ops |-> listed, call |-> FinishCall(Undefined)]
        ELSE IF ~StrictEq(ArrayAt(argSplit, 0), ppid)
        THEN [ops |-> listed, call |-> FinishCall(Undefined)]
        ELSE IF ~StrictEq(ArrayAt(argSplit, 1), Str(<<"global">>))
        THEN [ops |-> listed, call |-> FinishCall(Undefined)]
        ELSE IF ~env.argvReadable
        THEN [ops |-> read, call |-> FinishCall(Undefined)]
        ELSE IF NotFound(env.argv, WorkerIdentifier)
        THEN [ops |-> read, call |-> FinishCall(Undefined)]
        ELSE [ops |-> read \o <<"SIGTERM">>, call |-> FinishCall(Undefined)]

\* a killChild without the pid check of lines 131-134
killChild_NoPidCheck ==
    /\ \E env \in KillEnvs :
          /\ probes' = env
          /\ sysops' = KillChildRun(payload.pid, payload.ppid, env).ops
          /\ calls' = Append(calls,
                 KillChildRun(payload.pid, payload.ppid, env).call)
    /\ UNCHANGED <<crashed, childVars, estVars, helperVars, sharVars>>

\* lines 124-208
killChild ==
    /\ IF Falsy(payload.pid)
       THEN /\ calls' = Append(calls,
                   FatalCall(<<"No PID supplied to kill_migration_process task">>,
                             Undefined))
            /\ UNCHANGED <<probes, sysops>>
       ELSE \E env \in KillEnvs :
               /\ probes' = env
               /\ sysops' = KillChildRun(payload.pid, payload.ppid, env).ops
               /\ calls' = Append(calls,
                      KillChildRun(payload.pid, payload.ppid, env).call)
    /\ UNCHANGED <<crashed, childVars, estVars, helperVars, sharVars>>

(***************************************************************************)
(* zfsErrorStr, zfsError, deleteSnapshot                                   *)
(***************************************************************************)
SNAPSHOT_NAME_PREFIX == "vm-migrate-estimate"

\* ctx.snapshot (line 294)
SnapshotOf(dataset) == <<dataset, "@", SNAPSHOT_NAME_PREFIX>>

\* the error child_process.execFile hands to its callback when the command
\* exits non-zero (killed = FALSE) or ran into the timeout (killed = TRUE)
ExecError(killed, args) ==
    [killed |-> killed, message |-> <<"Command failed: /usr/sbin/zfs ">> \o args]

\* lines 212-222
zfsErrorStr(error, stderr) ==
    IF error = Null
    THEN <<>>
    ELSE IF error.killed
    THEN <<"Process killed due to timeout.">>
    ELSE IF error.message # <<>> THEN error.message ELSE stderr

\* lines 225-229
zfsError(prefixMsg, error, stderr) ==
    [message |-> <<prefixMsg, ": ">> \o zfsErrorStr(error, stderr),
     stderr |-> stderr]

\* the text deleteSnapshot looks for in stderr (lines 254-255)
NoSnapshotsText == <<"could not find any snapshots to destroy">>

\* how `zfs destroy -r <snapshot>` may end: it destroys the snapshot (when
\* there is one); it finds none (when there is none); it fails for another
\* reason and the snapshot, if any, is kept.  exists: whether the snapshot
\* exists afterwards
DestroyOutcomes(snapshot, exists) ==
    {[err |-> ExecError(FALSE, <<"destroy -r ">> \o snapshot),
      stderr |-> <<"cannot destroy '">> \o snapshot
                    \o <<"': dataset is busy", "\n">>,
      exists |-> exists]}
    \cup (IF exists
          THEN {[err |-> Null, stderr |-> <<>>, exists |-> FALSE]}
          ELSE {[err |-> ExecError(FALSE, <<"destroy -r ">> \o snapshot),
                 stderr |-> NoSnapshotsText \o <<"; check snapshot names.", "\n">>,
                 exists |-> FALSE]})

\* a deleteSnapshot that lacks the return of line 259
deleteSnapshotCallbacks_NoReturn(err, stderr) ==
    IF err # Null /\ NotFound(stderr, NoSnapshotsText)
    THEN <<zfsError("zfs snapshot destroy failure", err, stderr), Null>>
    ELSE <<Null>>

\* lines 251-263: the arguments of each call deleteSnapshot's execFile
\* callback makes to `callback`, in order (Null: called with no error)
deleteSnapshotCallbacks(err, stderr) ==
    IF err # Null /\ NotFound(stderr, NoSnapshotsText)
    THEN <<zfsError("zfs snapshot destroy failure", err, stderr)>>
    ELSE <<Null>>

(***************************************************************************)
(* estimate                                                                *)
(***************************************************************************)
\* lines 280-290: var datasets
EstimateDatasets(vm) ==
    IF vm.brand = "kvm" /\ vm.disks.isArray
    THEN <<vm.zfs_filesystem>> \o vm.disks.items
    ELSE <<vm.zfs_filesystem>>

\* the size `zfs send --dryrun` computes for the d-th dataset of the vm
RECURSIVE DatasetSize(_)
DatasetSize(d) == IF d = 1 THEN 10 ELSE 2 * DatasetSize(d - 1)

\* tokens of a line of output: a word, a run of white space, a number
Word(w) == [t |-> "word", s |-> w, v |-> 0]
Space == [t |-> "space", s |-> "", v |-> 0]
Number(n) == [t |-> "digits", s |-> "", v |-> n]

\* how `zfs send --dryrun --parsable --replicate <snapshot>` may end for a
\* dataset of size n: an error, the stream and size lines, the stream line
\* alone, a size line without a number
DryrunOutcomes(snapshot, n) ==
    {[err |-> ExecError(FALSE, <<"send --dryrun --parsable --replicate ">> \o snapshot),
      stdout |-> <<>>, stderr |-> <<"cannot open '">> \o snapshot \o <<"'", "\n">>],
     [err |-> Null, stderr |-> <<>>,
      stdout |-> << <<Word("full"), Space, Word(snapshot[1]), Space, Number(n)>>,
                    <<Word("size"), Space, Number(n)>>,
                    <<>> >>],
     [err |-> Null, stderr |-> <<>>,
      stdout |-> << <<Word("full"), Space, Word(snapshot[1]), Space, Number(n)>>,
                    <<>> >>],
     [err |-> Null, stderr |-> <<>>,
      stdout |-> << <<Space, Word("size"), Space, Word("unknown"), Space>>,
                    <<>> >>]}

\* line.trim() on a token sequence
RECURSIVE TrimLine(_)
TrimLine(line) ==
    IF line = <<>> THEN line
    ELSE IF Head(line) = Space THEN TrimLine(Tail(line))
    ELSE IF line[Len(line)] = Space THEN TrimLine(SubSeq(line, 1, Len(line) - 1))
    ELSE line

\* stdout.trim().split('\n'): stdout is given as its lines; trim() drops the
\* empty and blank lines at both ends and the white space around the rest
RECURSIVE TrimSplit(_)
TrimSplit(lines) ==
    IF lines = <<>> THEN << <<>> >>
    ELSE IF TrimLine(Head(lines)) = <<>> /\ Len(lines) > 1
    THEN TrimSplit(Tail(lines))
    ELSE IF TrimLine(lines[Len(lines)]) = <<>> /\ Len(lines) > 1
    THEN TrimSplit(SubSeq(lines, 1, Len(lines) - 1))
    ELSE IF Len(lines) = 1 THEN <<TrimLine(lines[1])>>
    ELSE << SubSeq(lines[1], IF Head(lines[1]) = Space THEN 2 ELSE 1,
                   Len(lines[1])) >>
           \o SubSeq(lines, 2, Len(lines) - 1)
           \o << SubSeq(lines[Len(lines)], 1,
                        Len(lines[Len(lines)])
                          - (IF lines[Len(lines)][Len(lines[Len(lines)])] = Space
                             THEN 1 ELSE 0)) >>

\* lines 354-355: lastLine
LastLine(stdout) == TrimLine(TrimSplit(stdout)[Len(TrimSplit(stdout))])

\* line 358: lastLine.match(/^size\s+(\d+)$/) is not null
SizeMatches(lastLine) ==
    /\ Len(lastLine) = 3
    /\ lastLine[1] = Word("size")
    /\ lastLine[2] = Space
    /\ lastLine[3].t = "digits"

\* line 369: Number(match[1])
SizeMatched(lastLine) == lastLine[3].v

\* the state of one estimateOneDataset pipeline when it starts: its first
\* step, deletePreviousSnapshot, has called deleteSnapshot
\*   step     the pipeline function whose command is running, or "done"
\*   comp     the compensating deleteSnapshot of line 383: none/running/done
\*   err      the err of _onEstimateOneDatasetPipelineCb
\*   trace    steps started and next() calls made, in the order of the code
\*   reports  the arguments of the next() calls
\*   delCalls, delDone, delCbs   deleteSnapshot calls made, execFile callbacks
\*            of deleteSnapshot run, calls made to deleteSnapshot's callback
\*   lastDel  the last deleteSnapshot completion: err, stderr, callbacks made
NewPipeline ==
    [step |-> "deletePreviousSnapshot", snapshotCreated |-> FALSE,
     comp |-> "none", err |-> Null, failedStep |-> "",
     trace |-> <<"deletePreviousSnapshot">>, reports |-> <<>>,
     delCalls |-> 1, delDone |-> 0, delCbs |-> 0,
     lastDel |-> [err |-> Null, stderr |-> <<>>, cbs |-> <<>>]]

\* vasync.forEachParallel's result argument: the errors of the failed inputs
MultiError(status, errs) ==
    [multi |-> [i \in 1..Cardinality({d \in DOMAIN status : status[d] = "fail"}) |->
                   errs[CHOOSE d \in DOMAIN status :
                          /\ status[d] = "fail"
                          /\ Cardinality({e \in 1..d : status[e] = "fail"}) = i]]]

\* an _onEstimateComplete that does not look at err
onEstimateComplete_IgnoreError(err, size) == FinishCall([size |-> size])

\* lines 397-408: _onEstimateComplete
onEstimateComplete(err, size) ==
    IF err # Null
    THEN FatalCall(err, Undefined)
    ELSE FinishCall([size |-> size])

\* next(err) of estimateOneDataset: the callback vasync.forEachParallel gave
\* for input d.  vasync asserts that the input is still pending; when the
\* last input reports, it calls _onEstimateComplete
Report(d, err, size) ==
    IF par.status[d] # "pending"
    THEN /\ crashed' = TRUE
         /\ UNCHANGED <<par, calls>>
    ELSE LET status == [par.status EXCEPT ![d] = IF err # Null THEN "fail" ELSE "ok"]
             errs == [par.errs EXCEPT ![d] = err]
             ndone == par.ndone + 1
         IN  /\ par' = [status |-> status, errs |-> errs, ndone |-> ndone]
             /\ crashed' = crashed
             /\ calls' =
                   IF ndone < Len(datasets)
                   THEN calls
                   ELSE Append(calls, onEstimateComplete(
                            IF \E e \in DOMAIN status : status[e] = "fail"
                            THEN MultiError(status, errs) ELSE Null, size))

\* a pipeline callback that reports the failure without the compensating
\* deleteSnapshot
onEstimateOneDatasetPipelineCb_NoCleanup(d, p, err, size) ==
    /\ pipe' = [pipe EXCEPT ![d] =
                   [p EXCEPT !.step = "done", !.err = err,
                             !.trace = Append(@, "next"),
                             !.reports = Append(@, err)]]
    /\ Report(d, err, size)

\* lines 380-393: _onEstimateOneDatasetPipelineCb(err) for dataset d, whose
\* pipeline state is p
onEstimateOneDatasetPipelineCb(d, p, err, size) ==
    LET compensate == err # Null /\ p.snapshotCreated
        q == [p EXCEPT !.step = "done",
                       !.err = err,
                       !.comp = IF compensate THEN "running" ELSE "none",
                       !.delCalls = IF compensate THEN @ + 1 ELSE @,
                       !.trace = @ \o (IF compensate THEN <<"compensate">> ELSE <<>>)
                                   \o <<"next">>,
                       !.reports = Append(@, err)]
    IN  /\ pipe' = [pipe EXCEPT ![d] = q]
        /\ Report(d, err, size)

\* a pipeline that starts the step after a failed one
StepDone_ContinueOnError(d, p, err, step, size) ==
    /\ estimatedSize' = size
    /\ IF step # "done"
       THEN /\ pipe' = [pipe EXCEPT ![d] =
                   [p EXCEPT !.step = step,
                             !.failedStep = IF err # Null THEN p.step ELSE @,
                             !.trace = Append(@, step),
                             !.delCalls = IF step = "cleanupSnapshot" THEN @ + 1 ELSE @]]
            /\ UNCHANGED <<par, calls, crashed>>
       ELSE onEstimateOneDatasetPipelineCb(d,
                [p EXCEPT !.failedStep = IF err # Null THEN p.step ELSE @],
                err, size)

\* vasync.pipeline's callback for a step of dataset d that ended with err:
\* start the step after it, or call the pipeline's callback
StepDone(d, p, err, step, size) ==
    /\ estimatedSize' = size
    /\ IF err = Null /\ step # "done"
       THEN /\ pipe' = [pipe EXCEPT ![d] =
                   [p EXCEPT !.step = step,
                             !.trace = Append(@, step),
                             !.delCalls = IF step = "cleanupSnapshot" THEN @ + 1 ELSE @]]
            /\ UNCHANGED <<par, calls, crashed>>
       ELSE onEstimateOneDatasetPipelineCb(d,
                [p EXCEPT !.failedStep = IF err # Null THEN p.step ELSE ""],
                err, size)

\* the pipeline state after a deleteSnapshot of dataset d ended with outcome o
Deleted(p, o) ==
    [p EXCEPT !.delDone = @ + 1,
              !.delCbs = @ + Len(deleteSnapshotCallbacks(o.err, o.stderr)),
              !.lastDel = [err |-> o.err, stderr |-> o.stderr,
                           cbs |-> deleteSnapshotCallbacks(o.err, o.stderr)]]

\* lines 267-409: start one pipeline per dataset
estimate ==
    /\ datasets' = EstimateDatasets(payload.vm)
    /\ estimatedSize' = 0
    /\ pipe' = [d \in 1..Len(datasets') |-> NewPipeline]
    /\ par' = [status |-> [d \in 1..Len(datasets') |-> "pending"],
               errs |-> [d \in 1..Len(datasets') |-> Null],
               ndone |-> 0]
    /\ snapExists' \in [1..Len(datasets') -> BOOLEAN]
    /\ UNCHANGED <<calls, crashed, childVars, killVars, helperVars, sharVars>>

\* lines 299-301 and 251-263: the destroy of deletePreviousSnapshot ended
OnDeletePreviousSnapshotDone(d) ==
    /\ ~crashed
    /\ pipe[d].step = "deletePreviousSnapshot"
    /\ \E o \in DestroyOutcomes(SnapshotOf(datasets[d]), snapExists[d]) :
          /\ snapExists' = [snapExists EXCEPT ![d] = o.exists]
          /\ StepDone(d, Deleted(pipe[d], o),
                      deleteSnapshotCallbacks(o.err, o.stderr)[1],
                      "createSnapshot", estimatedSize)
    /\ UNCHANGED <<payload, started, invoked, childVars, killVars, helperVars, sharVars, datasets>>

\* lines 315-327: the `zfs snapshot -r` of createSnapshot ended
OnCreateSnapshotDone(d) ==
    /\ ~crashed
    /\ pipe[d].step = "createSnapshot"
    /\ \/ /\ snapExists' = [snapExists EXCEPT ![d] = TRUE]
          /\ StepDone(d, [pipe[d] EXCEPT !.snapshotCreated = TRUE], Null,
                      "getEstimate", estimatedSize)
       \/ /\ UNCHANGED snapExists
          /\ StepDone(d, pipe[d],
                      zfsError("zfs snapshot failure",
                               ExecError(TRUE, <<"snapshot -r ">>
                                                  \o SnapshotOf(datasets[d])),
                               <<>>),
                      "getEstimate", estimatedSize)
    /\ UNCHANGED <<payload, started, invoked, childVars, killVars, helperVars, sharVars, datasets>>

\* a getEstimate that overwrites the total
AddEstimate_Overwrite(total, n) == n

\* line 369: estimatedSize += Number(match[1])
AddEstimate(total, n) == total + n

\* a getEstimate that takes a last line without a size for a size of zero
OnGetEstimateDone_DefaultZero(d) ==
    /\ ~crashed
    /\ pipe[d].step = "getEstimate"
    /\ \E o \in DryrunOutcomes(SnapshotOf(datasets[d]), DatasetSize(d)) :
          IF o.err # Null
          THEN StepDone(d, pipe[d], zfsError("zfs snapshot error", o.err, o.stderr),
                        "cleanupSnapshot", estimatedSize)
          ELSE StepDone(d, pipe[d], Null, "cleanupSnapshot",
                        AddEstimate(estimatedSize,
                            IF SizeMatches(LastLine(o.stdout))
                            THEN SizeMatched(LastLine(o.stdout)) ELSE 0))
    /\ UNCHANGED <<payload, started, invoked, childVars, killVars, helperVars, sharVars, datasets, snapExists>>

\* lines 345-372: the dry-run send of getEstimate ended
OnGetEstimateDone(d) ==
    /\ ~crashed
    /\ pipe[d].step = "getEstimate"
    /\ \E o \in DryrunOutcomes(SnapshotOf(datasets[d]), DatasetSize(d)) :
          IF o.err # Null
          THEN StepDone(d, pipe[d], zfsError("zfs snapshot error", o.err, o.stderr),
                        "cleanupSnapshot", estimatedSize)
          ELSE IF ~SizeMatches(LastLine(o.stdout))
          THEN StepDone(d, pipe[d],
                        [message |-> <<"Unable to get zfs send estimate">>,
                         stderr |-> <<>>],
                        "cleanupSnapshot", estimatedSize)
          ELSE StepDone(d, pipe[d], Null, "cleanupSnapshot",
                        AddEstimate(estimatedSize, SizeMatched(LastLine(o.stdout))))
    /\ UNCHANGED <<payload, started, invoked, childVars, killVars, helperVars, sharVars, datasets, snapExists>>

\* lines 376-378 and 251-263: the destroy of cleanupSnapshot ended
OnCleanupSnapshotDone(d) ==
    /\ ~crashed
    /\ pipe[d].step = "cleanupSnapshot"
    /\ \E o \in DestroyOutcomes(SnapshotOf(datasets[d]), snapExists[d]) :
          /\ snapExists' = [snapExists EXCEPT ![d] = o.exists]
          /\ StepDone(d, Deleted(pipe[d], o),
                      deleteSnapshotCallbacks(o.err, o.stderr)[1],
                      "done", estimatedSize)
    /\ UNCHANGED <<payload, started, invoked, childVars, killVars, helperVars, sharVars, datasets>>

\* a _deleteCb that reports the error of the compensating destroy
OnCompensationDone_ReportDeleteError(d) ==
    /\ ~crashed
    /\ pipe[d].comp = "running"
    /\ \E o \in DestroyOutcomes(SnapshotOf(datasets[d]), snapExists[d]) :
          /\ snapExists' = [snapExists EXCEPT ![d] = o.exists]
          /\ pipe' = [pipe EXCEPT ![d] =
                        [Deleted(pipe[d], o) EXCEPT
                            !.comp = "done",
                            !.trace = Append(@, "next"),
                            !.reports = Append(@,
                                deleteSnapshotCallbacks(o.err, o.stderr)[1])]]
          /\ Report(d, deleteSnapshotCallbacks(o.err, o.stderr)[1], estimatedSize)
    /\ UNCHANGED <<payload, started, invoked, childVars, killVars, helperVars, sharVars,
                   datasets, estimatedSize>>

\* lines 383-387 and 251-263: the compensating destroy ended; _deleteCb
\* calls next(err) with the pipeline's err
OnCompensationDone(d) ==
    /\ ~crashed
    /\ pipe[d].comp = "running"
    /\ \E o \in DestroyOutcomes(SnapshotOf(datasets[d]), snapExists[d]) :
          /\ snapExists' = [snapExists EXCEPT ![d] = o.exists]
          /\ pipe' = [pipe EXCEPT ![d] =
                        [Deleted(pipe[d], o) EXCEPT
                            !.comp = "done",
                            !.trace = Append(@, "next"),
                            !.reports = Append(@, pipe[d].err)]]
          /\ Report(d, pipe[d].err, estimatedSize)
    /\ UNCHANGED <<payload, started, invoked, childVars, killVars, helperVars, sharVars, datasets, estimatedSize>>

\* one callback of the event loop, for any dataset
DeletePreviousSnapshotDone == \E d \in DOMAIN pipe : OnDeletePreviousSnapshotDone(d)
CreateSnapshotDone == \E d \in DOMAIN pipe : OnCreateSnapshotDone(d)
GetEstimateDone == \E d \in DOMAIN pipe : OnGetEstimateDone(d)
CleanupSnapshotDone == \E d \in DOMAIN pipe : OnCleanupSnapshotDone(d)
CompensationDone == \E d \in DOMAIN pipe : OnCompensationDone(d)

(***************************************************************************)
(* setupFilesystem, setDoNotInventory, setAutoboot                         *)
(***************************************************************************)
\* a command line: the program and its arguments, each a sequence of atoms
Command(cmd, args) == [cmd |-> cmd, args |-> args]

\* lines 432-439 (and 586-593, 618-625): run the command with execFileSync;
\* when it throws, buf was never assigned and String(buf) is 'undefined'
ExecFileSyncTask(command) ==
    /\ execs' = Append(execs, command)
    /\ \/ calls' = Append(calls, FinishCall(Undefined))
       \/ calls' = Append(calls, FatalCall(<<"undefined">>, Undefined))
    /\ UNCHANGED <<crashed, childVars, killVars, estVars, marker, sync, sharVars>>

\* lines 412-440
setupFilesystem ==
    ExecFileSyncTask(Command("/usr/sbin/zfs",
        << <<"mount">>, <<"zones/", payload.vm_uuid>> >>))

\* lines 561-594
setDoNotInventory ==
    ExecFileSyncTask(Command("/usr/sbin/vmadm",
        << <<"update">>, <<payload.vm_uuid>>,
           <<"do_not_inventory=", payload.value>> >>))

\* lines 597-628
setAutoboot ==
    ExecFileSyncTask(Command("/usr/sbin/vmadm",
        << <<"update">>, <<payload.vm_uuid>>, <<"autoboot=", payload.value>> >>))

(***************************************************************************)
(* removeSyncSnapshots                                                     *)
(***************************************************************************)
\* number of snapshots `zfs list` may report for one dataset
MaxSnapshots == 2

\* var fileMarkerPath (line 475)
NonProductionMarker == "/lib/sdc/.sdc-test-no-production-data"

\* lines 459-470: var datasets
SyncDatasets(vm) ==
    IF vm.brand = "kvm" /\ vm.disks.isArray
    THEN <<vm.zfs_filesystem>> \o vm.disks.items
    ELSE <<vm.zfs_filesystem>>

\* aDataset.replace(from, to) with a string pattern: the first occurrence
RECURSIVE ReplaceFirst(_, _, _)
ReplaceFirst(str, from, to) ==
    IF str = <<>> THEN str
    ELSE IF Head(str) = from THEN <<to>> \o Tail(str)
    ELSE <<Head(str)>> \o ReplaceFirst(Tail(str), from, to)

\* lines 485-487: the datasets with the uuid replaced
OverrideDatasets(ds, from, to) ==
    [i \in DOMAIN ds |-> ReplaceFirst(ds[i], from, to)]

\* how `zfs list -t snapshot -r -H -o name <dataset>` may end: an error, or
\* one line per snapshot; stdout is given as its lines, the last one empty
ListOutcomes(dataset) ==
    {[err |-> ExecError(FALSE, <<"list -t snapshot -r -H -o name ">> \o dataset),
      stdout |-> <<>>,
      stderr |-> <<"cannot open '">> \o dataset \o <<"': dataset does not exist", "\n">>]}
    \cup {[err |-> Null, stderr |-> <<>>,
           stdout |-> [i \in 1..(n + 1) |->
                         IF i <= n
                         THEN dataset \o <<"@", "vm-migration-" \o ToString(i)>>
                         ELSE <<>>]] : n \in 0..MaxSnapshots}

\* lines 521-525: stdout.trim().split('\n').filter(name => name)
SnapshotNames(stdout) == SelectSeq(stdout, LAMBDA name : name # <<>>)

\* the state of one destroySyncSnapshots pipeline when it starts: its first
\* step, listSnapshots, has issued `zfs list`
\*   step       the pipeline function that is running, or "done"
\*   snapshots  ctx.snapshots
\*   cmds       the commands issued for the dataset, in order
\*   results    the error (or Null) each completed command called back with
\*   err        the error the pipeline reported
NewSyncPipeline(dataset) ==
    [step |-> "listSnapshots", snapshots |-> <<>>,
     cmds |-> <<[op |-> "list", target |-> dataset]>>,
     results |-> <<>>, err |-> Null]

\* lines 549-557: _destroySyncSnapshotsCb
destroySyncSnapshotsCb(err) ==
    IF err # Null THEN FatalCall(err, Undefined) ELSE FinishCall(Undefined)

\* next(err) of destroySyncSnapshots: the callback vasync.forEachParallel
\* gave for input d
SyncReport(d, err) ==
    IF par.status[d] # "pending"
    THEN /\ crashed' = TRUE
         /\ UNCHANGED <<par, calls>>
    ELSE LET status == [par.status EXCEPT ![d] = IF err # Null THEN "fail" ELSE "ok"]
             errs == [par.errs EXCEPT ![d] = err]
             ndone == par.ndone + 1
         IN  /\ par' = [status |-> status, errs |-> errs, ndone |-> ndone]
             /\ crashed' = crashed
             /\ calls' =
                   IF ndone < Len(datasets)
                   THEN calls
                   ELSE Append(calls, destroySyncSnapshotsCb(
                            IF \E e \in DOMAIN status : status[e] = "fail"
                            THEN MultiError(status, errs) ELSE Null))

\* line 548: vasync.forEachParallel starts destroySyncSnapshots for every
\* dataset
StartSync(ds) ==
    /\ datasets' = ds
    /\ par' = [status |-> [d \in DOMAIN ds |-> "pending"],
               errs |-> [d \in DOMAIN ds |-> Null],
               ndone |-> 0]
    /\ sync' = [d \in DOMAIN ds |-> NewSyncPipeline(ds[d])]
    /\ UNCHANGED calls

\* the fatal call of lines 479-481
MarkerMissingCall ==
    FatalCall(<<"Cannot perform migration uuid override - ",
                "as non-production marker file is missing: ",
                NonProductionMarker>>, Undefined)

\* a removeSyncSnapshots that lacks the return of line 482
removeSyncSnapshots_NoReturn ==
    /\ IF payload.vm.uuid # payload.vm_uuid
       THEN \/ /\ marker' = "absent"
               /\ datasets' = OverrideDatasets(SyncDatasets(payload.vm),
                                  payload.vm.uuid, payload.vm_uuid)
               /\ par' = [status |-> [d \in DOMAIN datasets' |-> "pending"],
                          errs |-> [d \in DOMAIN datasets' |-> Null],
                          ndone |-> 0]
               /\ sync' = [d \in DOMAIN datasets' |-> NewSyncPipeline(datasets'[d])]
               /\ calls' = Append(calls, MarkerMissingCall)
            \/ /\ marker' = "present"
               /\ StartSync(OverrideDatasets(SyncDatasets(payload.vm),
                                payload.vm.uuid, payload.vm_uuid))
       ELSE /\ UNCHANGED marker
            /\ StartSync(SyncDatasets(payload.vm))
    /\ UNCHANGED <<crashed, childVars, killVars, estimatedSize, pipe,
                   snapExists, execs, sharVars>>

\* lines 443-558
removeSyncSnapshots ==
    /\ IF payload.vm.uuid # payload.vm_uuid
       THEN \/ /\ marker' = "absent"
               /\ calls' = Append(calls, MarkerMissingCall)
               /\ UNCHANGED <<datasets, par, sync>>
            \/ /\ marker' = "present"
               /\ StartSync(OverrideDatasets(SyncDatasets(payload.vm),
                                payload.vm.uuid, payload.vm_uuid))
       ELSE /\ UNCHANGED marker
            /\ StartSync(SyncDatasets(payload.vm))
    /\ UNCHANGED <<crashed, childVars, killVars, estimatedSize, pipe,
                   snapExists, execs, sharVars>>

\* a forEachPipeline that goes on to the next snapshot after a failed destroy
SyncStepDone_ContinueOnError(d, q, err) ==
    LET r == [q EXCEPT !.results = Append(@, err)]
        ndestroys == Len(r.cmds) - 1
    IN  IF ndestroys < Len(r.snapshots)
        THEN /\ sync' = [sync EXCEPT ![d] =
                    [r EXCEPT !.step = "destroySnapshots",
                              !.cmds = Append(@, [op |-> "destroy",
                                     target |-> r.snapshots[ndestroys + 1]])]]
             /\ UNCHANGED <<par, calls, crashed>>
        ELSE /\ sync' = [sync EXCEPT ![d] = [r EXCEPT !.step = "done", !.err = err]]
             /\ SyncReport(d, err)

\* vasync.pipeline / vasync.forEachPipeline for dataset d, whose pipeline
\* state is q, after a command ended with err: issue the next destroy, or
\* report the dataset's outcome
SyncStepDone(d, q, err) ==
    LET r == [q EXCEPT !.results = Append(@, err)]
        ndestroys == Len(r.cmds) - 1
    IN  IF err = Null /\ ndestroys < Len(r.snapshots)
        THEN /\ sync' = [sync EXCEPT ![d] =
                    [r EXCEPT !.step = "destroySnapshots",
                              !.cmds = Append(@, [op |-> "destroy",
                                     target |-> r.snapshots[ndestroys + 1]])]]
             /\ UNCHANGED <<par, calls, crashed>>
        ELSE /\ sync' = [sync EXCEPT ![d] = [r EXCEPT !.step = "done", !.err = err]]
             /\ SyncReport(d, err)

\* lines 513-527: the `zfs list` of listSnapshots ended
OnListSnapshotsDone(d) ==
    /\ ~crashed
    /\ sync[d].step = "listSnapshots"
    /\ \E o \in ListOutcomes(datasets[d]) :
          IF o.err # Null
          THEN SyncStepDone(d, sync[d], zfsError("zfs list failure", o.err, o.stderr))
          ELSE SyncStepDone(d, [sync[d] EXCEPT !.snapshots = SnapshotNames(o.stdout)],
                            Null)
    /\ UNCHANGED <<payload, started, invoked, childVars, killVars, datasets,
                   estimatedSize, pipe, snapExists, execs, marker, sharVars>>

\* lines 533-538 and 251-263: the destroy of destroyOneSnapshot ended
OnDestroyOneSnapshotDone(d) ==
    /\ ~crashed
    /\ sync[d].step = "destroySnapshots"
    /\ \E ex \in BOOLEAN :
         \E o \in DestroyOutcomes(sync[d].cmds[Len(sync[d].cmds)].target, ex) :
            SyncStepDone(d, sync[d], deleteSnapshotCallbacks(o.err, o.stderr)[1])
    /\ UNCHANGED <<payload, started, invoked, childVars, killVars, datasets,
                   estimatedSize, pipe, snapExists, execs, marker, sharVars>>

ListSnapshotsDone == \E d \in DOMAIN sync : OnListSnapshotsDone(d)
DestroyOneSnapshotDone == \E d \in DOMAIN sync : OnDestroyOneSnapshotDone(d)

(***************************************************************************)
(* start, the dispatcher                                                   *)
(***************************************************************************)
NoVm == [brand |-> "", zfs_filesystem |-> "", disks |-> [isArray |-> FALSE, items |-> <<>>]]

\* the disks of a vm with n disks
Disks(n) == [i \in 1..n |-> "zones/vm1-disk" \o ToString(i - 1)]

\* the disks of a kvm vm with uuid u and n disks
SyncDisks(u, n) == [i \in 1..n |-> <<"zones/", u, "-disk" \o ToString(i - 1)>>]

\* the payloads a task may be constructed with
Payloads ==
    {[action |-> a, pid |-> Undefined, ppid |-> Undefined, vm |-> NoVm] :
        a \in {"sync", "receive"}}
    \cup {[action |-> "kill_migration_process", pid |-> pid, ppid |-> ppid, vm |-> NoVm] :
            pid \in {Undefined, Num(0), Num(4242)},
            ppid \in {Undefined, Num(77), Str(<<>>), Str(<<"77">>), Str(<<"78">>)}}
    \cup {[action |-> "estimate", pid |-> Undefined, ppid |-> Undefined,
           vm |-> [brand |-> b, zfs_filesystem |-> "zones/vm1", disks |-> ds]] :
            b \in {"kvm", "bhyve"},
            ds \in {[isArray |-> FALSE, items |-> <<>>]}
                   \cup {[isArray |-> TRUE, items |-> Disks(n)] : n \in 0..MaxDisks}}
    \cup {[action |-> "remove-sync-snapshots", vm_uuid |-> u,
           vm |-> [uuid |-> "u1", brand |-> b,
                   zfs_filesystem |-> <<"zones/", "u1">>, disks |-> ds]] :
            u \in {"u1", "u2"},
            b \in {"kvm", "bhyve"},
            ds \in {[isArray |-> FALSE, items |-> <<>>]}
                   \cup {[isArray |-> TRUE, items |-> SyncDisks("u1", n)] :
                            n \in 1..MaxDisks}}
    \cup {[action |-> "setup-filesystem", vm_uuid |-> "u1"]}
    \cup {[action |-> a, vm_uuid |-> "u1", value |-> v] :
            a \in {"set-do-not-inventory", "set-autoboot"},
            v \in {"true", "false"}}
    \cup {[action |-> a] : a \in {"migrate", "SYNC", "kill"}}

\* the fatal call of line 656
UnexpectedActionCall(action) ==
    FatalCall(<<"Unexpected payload.action: ", action>>, Undefined)

\* a dispatcher whose last branch is taken for every other action
start_DefaultBranch ==
    /\ ~started
    /\ started' = TRUE
    /\ UNCHANGED payload
    /\ \/ /\ payload.action = "kill_migration_process"
          /\ invoked' = <<"killChild">>
          /\ killChild
       \/ /\ payload.action \in {"sync", "receive"}
          /\ invoked' = <<"startChildProcess">>
          /\ startChildProcess
       \/ /\ payload.action = "estimate"
          /\ invoked' = <<"estimate">>
          /\ estimate
       \/ /\ payload.action = "remove-sync-snapshots"
          /\ invoked' = <<"removeSyncSnapshots">>
          /\ removeSyncSnapshots
       \/ /\ payload.action = "setup-filesystem"
          /\ invoked' = <<"setupFilesystem">>
          /\ setupFilesystem
       \/ /\ payload.action = "set-do-not-inventory"
          /\ invoked' = <<"setDoNotInventory">>
          /\ setDoNotInventory
       \/ /\ payload.action \notin {"kill_migration_process", "sync", "receive",
                                  "estimate", "remove-sync-snapshots",
                                  "setup-filesystem", "set-do-not-inventory"}
          /\ invoked' = <<"setAutoboot">>
          /\ execs' = Append(execs, Command("/usr/sbin/vmadm",
                          << <<"update">>, <<"undefined">>, <<"autoboot=undefined">> >>))
          /\ calls' = Append(calls, FinishCall(Undefined))
          /\ UNCHANGED <<crashed, childVars, killVars, estVars, marker, sync, sharVars>>

\* lines 631-658
start ==
    /\ ~started
    /\ started' = TRUE
    /\ UNCHANGED payload
    /\ \/ /\ payload.action = "kill_migration_process"
          /\ invoked' = <<"killChild">>
          /\ killChild
       \/ /\ payload.action \in {"sync", "receive"}
          /\ invoked' = <<"startChildProcess">>
          /\ startChildProcess
       \/ /\ payload.action = "estimate"
          /\ invoked' = <<"estimate">>
          /\ estimate
       \/ /\ payload.action = "remove-sync-snapshots"
          /\ invoked' = <<"removeSyncSnapshots">>
          /\ removeSyncSnapshots
       \/ /\ payload.action = "setup-filesystem"
          /\ invoked' = <<"setupFilesystem">>
          /\ setupFilesystem
       \/ /\ payload.action = "set-do-not-inventory"
          /\ invoked' = <<"setDoNotInventory">>
          /\ setDoNotInventory
       \/ /\ payload.action = "set-autoboot"
          /\ invoked' = <<"setAutoboot">>
          /\ setAutoboot
       \/ /\ payload.action \notin {"kill_migration_process", "sync", "receive",
                                  "estimate", "remove-sync-snapshots",
                                  "setup-filesystem", "set-do-not-inventory",
                                  "set-autoboot"}
          /\ invoked' = <<>>
          /\ calls' = Append(calls, UnexpectedActionCall(payload.action))
          /\ UNCHANGED <<crashed, childVars, killVars, estVars, helperVars, sharVars>>

(***************************************************************************)
(* AgentsSharInstallTask                                                   *)
(***************************************************************************)
\* self.sysinfo.UUID
ServerUuid == "564d0b9e-1f3a-4c5d-8e7f-0a1b2c3d4e5f"

\* the requests an AgentsSharInstallTask may be constructed with: the url as
\* its directory part and its base name
SharPayloads ==
    {[url |-> <<"https://updates.example.com/agentsshars/", base>>] :
        base \in {"agents-master.sh", "agents-release.sh"}}

\* lines 52-54: ctx.sharFile
SharFile(url) ==
    <<"/var/tmp/", "agentsshar.download.", ServerUuid, url[Len(url)]>>

\* what the pipeline did: ev is the pipeline function it started,
\* "progress" with the value v given to self.progress, or the completion
\* call made
SharEvent(ev, v) == [ev |-> ev, v |-> v]

\* the errors backendCommon.downloadFile may call back with
DownloadErrors ==
    {[message |-> <<"download failed: 404">>],
     [message |-> <<"download failed: checksum mismatch">>]}

\* the errors shared.installAgentsShar may call back with
InstallErrors ==
    {[message |-> <<"agentsshar exited with status 1">>]}

\* before start
\*   step      the pipeline function whose helper is running, idle or done
\*   sharFile  ctx.sharFile
\*   err       the error the pipeline ended with
\*   trace     the functions started, the progress values reported and the
\*             completion call, in the order of the code
NoShar == [step |-> "idle", sharFile |-> <<>>, err |-> Null, trace |-> <<>>]

\* an _onInstallPipelineComplete that reports no progress
onInstallPipelineComplete_NoProgress(err) ==
    IF err # Null
    THEN [events |-> <<SharEvent("fatal", 0)>>,
          call |-> FatalCall(<<"Failed to install agentsshar: ">> \o err.message,
                             Undefined)]
    ELSE [events |-> <<SharEvent("finish", 0)>>,
          call |-> FinishCall(Undefined)]

\* lines 87-96: _onInstallPipelineComplete: what it does, in order, and the
\* completion call it makes
onInstallPipelineComplete(err) ==
    IF err # Null
    THEN [events |-> <<SharEvent("progress", 100), SharEvent("fatal", 0)>>,
          call |-> FatalCall(<<"Failed to install agentsshar: ">> \o err.message,
                             Undefined)]
    ELSE [events |-> <<SharEvent("progress", 100), SharEvent("finish", 0)>>,
          call |-> FinishCall(Undefined)]

\* lines 34-63: start of the task: vasync.pipeline calls _downloadShar
AgentsSharInstallTaskStart ==
    /\ task = "AgentsSharInstallTask"
    /\ ~started
    /\ started' = TRUE
    /\ shar' = [step |-> "_downloadShar", sharFile |-> SharFile(payload.url),
                err |-> Null,
                trace |-> <<SharEvent("_downloadShar", 0)>>]
    /\ UNCHANGED <<payload, invoked, calls, crashed, task, childVars, killVars,
                   estVars, helperVars>>

\* lines 60-63: _onDownloaded(err); the pipeline goes on to _installShar or,
\* when err is set, to its callback
OnDownloaded ==
    /\ shar.step = "_downloadShar"
    /\ \E err \in {Null} \cup DownloadErrors :
          IF err # Null
          THEN /\ shar' = [shar EXCEPT
                              !.step = "done",
                              !.err = err,
                              !.trace = @ \o <<SharEvent("progress", 50)>>
                                          \o onInstallPipelineComplete(err).events]
               /\ calls' = Append(calls, onInstallPipelineComplete(err).call)
          ELSE /\ shar' = [shar EXCEPT
                              !.step = "_installShar",
                              !.trace = @ \o <<SharEvent("progress", 50),
                                               SharEvent("_installShar", 0)>>]
               /\ UNCHANGED calls
    /\ UNCHANGED <<payload, started, invoked, crashed, task, childVars,
                   killVars, estVars, helperVars>>

\* lines 69-86: _onInstallAgentsShar(err); the pipeline goes on to
\* _deleteTmpShar, which calls back at once, and then to its callback
OnInstallAgentsShar ==
    /\ shar.step = "_installShar"
    /\ \E err \in {Null} \cup InstallErrors :
          /\ shar' = [shar EXCEPT
                         !.step = "done",
                         !.err = err,
                         !.trace = @ \o <<SharEvent("progress", 75)>>
                                     \o (IF err # Null THEN <<>>
                                         ELSE <<SharEvent("_deleteTmpShar", 0)>>)
                                     \o onInstallPipelineComplete(err).events]
          /\ calls' = Append(calls, onInstallPipelineComplete(err).call)
    /\ UNCHANGED <<payload, started, invoked, crashed, task, childVars,
                   killVars, estVars, helperVars>>

\* MachineMigrateTask.setStart(start) (line 34)
MachineMigrateTaskStart ==
    /\ task = "MachineMigrateTask"
    /\ start

Init ==
    /\ \/ task = "MachineMigrateTask" /\ payload \in Payloads
       \/ task = "AgentsSharInstallTask" /\ payload \in SharPayloads
    /\ shar = NoShar
    /\ started = FALSE
    /\ invoked = <<>>
    /\ errorEvent = "none"
    /\ execs = <<>>
    /\ marker = "unprobed"
    /\ sync = <<>>
    /\ calls = <<>>
    /\ crashed = FALSE
    /\ worker = "none"
    /\ binfn = <<>>
    /\ ipc = <<>>
    /\ nSent = 0
    /\ exitStatus = <<Null, Null>>
    /\ handledResponse = FALSE
    /\ onceCalled = FALSE
    /\ disconnects = 0
    /\ limitedStderr = [defined |-> FALSE, bytes |-> <<>>]
    /\ stderrTotal = 0
    /\ nFrags = 0
    /\ probes = NoProbes
    /\ sysops = <<>>
    /\ datasets = <<>>
    /\ estimatedSize = 0
    /\ pipe = <<>>
    /\ par = [status |-> <<>>, errs |-> <<>>, ndone |-> 0]
    /\ snapExists = <<>>

Next ==
    \/ MachineMigrateTaskStart
    \/ AgentsSharInstallTaskStart
    \/ OnDownloaded
    \/ OnInstallAgentsShar
    \/ WorkerSend
    \/ WorkerExit
    \/ OnMessage
    \/ OnStderrData
    \/ OnExit
    \/ WorkerIpcError
    \/ OnError
    \/ DeletePreviousSnapshotDone
    \/ CreateSnapshotDone
    \/ GetEstimateDone
    \/ CleanupSnapshotDone
    \/ CompensationDone
    \/ ListSnapshotsDone
    \/ DestroyOneSnapshotDone

Spec == Init /\ [][Next]_vars

\* the event loop delivers every event that is pending: a 'message', the
\* 'exit' of a worker that ended, an 'error'
LiveSpec ==
    /\ Spec
    /\ WF_vars(MachineMigrateTaskStart)
    /\ WF_vars(OnMessage)
    /\ WF_vars(OnExit)
    /\ WF_vars(OnError)

(***************************************************************************)
(* Properties                                                              *)
(***************************************************************************)
Completions == Len(calls)

IsMigrateTask == task = "MachineMigrateTask"
IsSharTask == task = "AgentsSharInstallTask"
IsChildTask == IsMigrateTask /\ payload.action \in {"sync", "receive"}
IsKillTask == IsMigrateTask /\ payload.action = "kill_migration_process"
IsEstimateTask == IsMigrateTask /\ payload.action = "estimate"

\* C1: a task started with action sync or receive never has more than one
\* finish/fatal call, and has exactly one once the 'exit' event or a result
\* message was handled, whatever the order of the worker's events.
C1_ExactlyOneCompletion ==
    IsChildTask =>
        /\ Completions <= 1
        /\ (worker = "reaped" \/ handledResponse) => Completions = 1

\* the pid p names process number n
PidMatches(p, n) == p = Num(n) \/ p = Str(<<Digits(n)>>)

SigtermSent == \E i \in 1..Len(sysops) : sysops[i] = "SIGTERM"

AllChecksPassed ==
    /\ probes.alive
    /\ ~probes.psFails
    /\ PidMatches(payload.ppid, probes.ppid)
    /\ probes.zone = "global"
    /\ probes.argvReadable
    /\ Contains(probes.argv, WorkerIdentifier)

\* C2: killChild sends SIGTERM only if the liveness probe succeeded, ps
\* reported the parent payload.ppid and the zone global, and argv was read
\* and contains the worker identifier; if any of the checks fails no SIGTERM
\* is sent and the task ends with finish(), never fatal().
C2_KillOnlyIfAllChecksPass ==
    (IsKillTask /\ probes.run) =>
        /\ SigtermSent => AllChecksPassed
        /\ ~AllChecksPassed =>
              /\ ~SigtermSent
              /\ calls = <<FinishCall(Undefined)>>

C2_Witness ==
    /\ IsKillTask
    /\ SigtermSent
    /\ AllChecksPassed
    /\ calls = <<FinishCall(Undefined)>>

\* index of the first occurrence of event e in trace t, 0 when there is none
FirstIndex(t, e) ==
    IF \E i \in 1..Len(t) : t[i] = e
    THEN CHOOSE i \in 1..Len(t) : t[i] = e /\ \A j \in 1..(i - 1) : t[j] # e
    ELSE 0

\* C3: for each dataset whose createSnapshot succeeded and whose getEstimate
\* failed, the compensating deleteSnapshot is started before next(err) is
\* called for the dataset, and the task completes (fatal) only after every
\* pipeline has ended, hence after that deleteSnapshot was started.
C3_DeleteStartedBeforeFailureReported ==
    IsEstimateTask =>
        /\ \A d \in DOMAIN pipe :
              (/\ pipe[d].snapshotCreated
               /\ pipe[d].failedStep = "getEstimate") =>
                  /\ FirstIndex(pipe[d].trace, "compensate") > 0
                  /\ FirstIndex(pipe[d].trace, "compensate")
                        < FirstIndex(pipe[d].trace, "next")
        /\ calls # <<>> => \A d \in DOMAIN pipe : pipe[d].step = "done"

C3_Witness ==
    /\ IsEstimateTask
    /\ calls # <<>>
    /\ calls[1].fn = "fatal"
    /\ \E d \in DOMAIN pipe :
          /\ pipe[d].snapshotCreated
          /\ pipe[d].failedStep = "getEstimate"
          /\ pipe[d].comp # "none"

\* C4: when the estimate task calls finish or fatal, no estimate snapshot
\* created by this run exists any more: every created snapshot was destroyed.
C4_NoSnapshotLeftAtCompletion ==
    (IsEstimateTask /\ calls # <<>>) =>
        \A d \in DOMAIN pipe : pipe[d].snapshotCreated => ~snapExists[d]

\* the sum of the sizes of the first n disks' datasets
RECURSIVE DiskSizes(_)
DiskSizes(n) == IF n = 0 THEN 0 ELSE DatasetSize(1 + n) + DiskSizes(n - 1)

\* the size of the primary dataset and, for brand kvm, of each disk's dataset
ExpectedSize(vm) ==
    DatasetSize(1)
      + (IF vm.brand = "kvm" /\ vm.disks.isArray
         THEN DiskSizes(Len(vm.disks.items)) ELSE 0)

AllPipelinesSucceeded ==
    /\ pipe # <<>>
    /\ \A d \in DOMAIN pipe : pipe[d].step = "done" /\ pipe[d].err = Null

\* C5: when every per-dataset pipeline succeeded the task has finished with
\* {size: S}, S the sum of the sizes of the primary dataset and (brand kvm
\* only) of the disks' datasets, in every interleaving of the pipelines; and
\* a finish call never carries another size.
C5_SizeIsSumOfDatasets ==
    IsEstimateTask =>
        /\ AllPipelinesSucceeded =>
              calls = <<FinishCall([size |-> ExpectedSize(payload.vm)])>>
        /\ \A i \in 1..Len(calls) :
              calls[i].fn = "finish" =>
                  calls[i].arg = [size |-> ExpectedSize(payload.vm)]

C5_Witness ==
    /\ IsEstimateTask
    /\ payload.vm.brand = "kvm"
    /\ Len(datasets) > 1
    /\ AllPipelinesSucceeded
    /\ calls = <<FinishCall([size |-> ExpectedSize(payload.vm)])>>

\* C6: once the worker wrote more than 5000 bytes to stderr, after every
\* fragment the buffer is the first 2500 bytes of the stream, one elision
\* marker, and the last 2500 bytes of the stream so far (5005 bytes).
C6_FirstAndLastOfStream ==
    stderrTotal > StderrLimit =>
        /\ limitedStderr.defined
        /\ limitedStderr.bytes =
              StreamBytes(1, HeadBytes) \o ElisionMarker
                 \o StreamBytes(stderrTotal - TailBytes + 1, stderrTotal)
        /\ BufLen(limitedStderr.bytes) = HeadBytes + 5 + TailBytes

C6_Witness ==
    /\ stderrTotal > 2 * StderrLimit
    /\ nFrags >= 3
    /\ limitedStderr.bytes =
          StreamBytes(1, HeadBytes) \o ElisionMarker
             \o StreamBytes(stderrTotal - TailBytes + 1, stderrTotal)

\* C7: every completed deleteSnapshot called its callback exactly once, with
\* no error when the destroy succeeded or failed with the 'could not find any
\* snapshots to destroy' text in stderr, and with an error otherwise.
C7_DeleteSnapshotCallsBackOnce ==
    \A d \in DOMAIN pipe :
        /\ pipe[d].delCbs = pipe[d].delDone
        /\ pipe[d].delDone > 0 =>
              /\ Len(pipe[d].lastDel.cbs) = 1
              /\ (pipe[d].lastDel.cbs[1] = Null) <=>
                    (\/ pipe[d].lastDel.err = Null
                     \/ Contains(pipe[d].lastDel.stderr, NoSnapshotsText))

C7_Witness ==
    \E d \in DOMAIN pipe :
        /\ pipe[d].delDone > 0
        /\ pipe[d].lastDel.err # Null
        /\ Contains(pipe[d].lastDel.stderr, NoSnapshotsText)
        /\ pipe[d].lastDel.cbs = <<Null>>
        /\ pipe[d].step = "createSnapshot"

\* C8: a kill task started without a pid calls fatal once with the 'No PID
\* supplied' message, never finish, and probes nothing and signals nothing.
C8_NoPidIsFatal ==
    (IsKillTask /\ payload.pid = Undefined /\ started) =>
        /\ calls = <<FatalCall(<<"No PID supplied to kill_migration_process task">>,
                               Undefined)>>
        /\ sysops = <<>>
        /\ ~probes.run

C8_Witness ==
    /\ IsKillTask
    /\ payload.pid = Undefined
    /\ started
    /\ Completions = 1
    /\ calls[1].fn = "fatal"

\* C9: the estimate task calls finish/fatal at most once, exactly once when
\* all its pipelines have ended, and each per-dataset pipeline reports to
\* forEachParallel (calls next) exactly once.
C9_EstimateCompletesOnce ==
    IsEstimateTask =>
        /\ Completions <= 1
        /\ ~crashed
        /\ \A d \in DOMAIN pipe :
              /\ Len(pipe[d].reports) <= 1
              /\ pipe[d].step = "done" => Len(pipe[d].reports) = 1
        /\ (pipe # <<>> /\ \A d \in DOMAIN pipe : pipe[d].step = "done") =>
              Completions = 1

\* C10: the 'exit' event of a worker, handled while no result message was
\* handled, makes exactly one call, task.fatal, whose message contains the
\* exit code and the signal and whose detail is the captured stderr buffer
\* as a string; it makes no finish call.
C10_ExitWithoutResultIsFatal ==
    [][(worker = "exited" /\ worker' = "reaped" /\ ~handledResponse) =>
          /\ Len(calls') = Len(calls) + 1
          /\ SubSeq(calls', 1, Len(calls)) = calls
          /\ calls'[Len(calls')].fn = "fatal"
          /\ Contains(calls'[Len(calls')].arg, FormatS(exitStatus[1]))
          /\ Contains(calls'[Len(calls')].arg, FormatS(exitStatus[2]))
          /\ calls'[Len(calls')].detail = StringOfStderr(limitedStderr)]_vars

C10_Witness ==
    /\ worker = "reaped"
    /\ ~handledResponse
    /\ limitedStderr.defined
    /\ Completions = 1
    /\ calls[1].fn = "fatal"
    /\ calls[1].detail = StringOfStderr(limitedStderr)

\* C11: handling the first result message makes exactly one call: with an
\* error field in the message task.fatal(error.message), and no finish; else
\* task.finish(result), result being the message with ppid set to the pid
\* of the process that runs the session, and no fatal.
C11_FirstMessageCompletes ==
    [][(ipc # <<>> /\ ipc' = Tail(ipc) /\ ~onceCalled) =>
          /\ Len(calls') = Len(calls) + 1
          /\ SubSeq(calls', 1, Len(calls)) = calls
          /\ IF Head(ipc).error # Undefined
             THEN calls'[Len(calls')] =
                     FatalCall(Head(ipc).error.message, Undefined)
             ELSE /\ calls'[Len(calls')].fn = "finish"
                  /\ calls'[Len(calls')].arg.ppid = ProcessPid
                  /\ calls'[Len(calls')].arg.id = Head(ipc).id
                  /\ calls'[Len(calls')].arg.error = Undefined]_vars

C11_Witness ==
    /\ IsChildTask
    /\ onceCalled
    /\ worker = "running"
    /\ Completions = 1
    /\ calls[1].fn = "finish"
    /\ calls[1].arg.ppid = ProcessPid

\* the actions of the dispatcher and the function each selects
KnownActions ==
    {"kill_migration_process", "sync", "receive", "estimate",
     "remove-sync-snapshots", "setup-filesystem", "set-do-not-inventory",
     "set-autoboot"}

BehaviourOf(action) ==
    CASE action = "kill_migration_process" -> "killChild"
      [] action \in {"sync", "receive"} -> "startChildProcess"
      [] action = "estimate" -> "estimate"
      [] action = "remove-sync-snapshots" -> "removeSyncSnapshots"
      [] action = "setup-filesystem" -> "setupFilesystem"
      [] action = "set-do-not-inventory" -> "setDoNotInventory"
      [] action = "set-autoboot" -> "setAutoboot"

\* no process was spawned, no probe made and no command run
NothingRun ==
    /\ worker = "none"
    /\ ~probes.run
    /\ sysops = <<>>
    /\ pipe = <<>>
    /\ sync = <<>>
    /\ execs = <<>>
    /\ marker = "unprobed"

\* C12: start() calls exactly one function, the one payload.action selects
\* among the eight known actions; for any other action it calls task.fatal
\* once with a message that names the action, calls no function, spawns no
\* process and runs no command.
C12_DispatchByAction ==
    /\ ~started => invoked = <<>> /\ calls = <<>> /\ NothingRun
    /\ (IsMigrateTask /\ started) =>
          IF payload.action \in KnownActions
          THEN invoked = <<BehaviourOf(payload.action)>>
          ELSE /\ invoked = <<>>
               /\ Completions = 1
               /\ calls[1].fn = "fatal"
               /\ Contains(calls[1].arg, <<payload.action>>)
               /\ NothingRun

C12_Witness ==
    /\ IsMigrateTask
    /\ started
    /\ payload.action \notin KnownActions
    /\ Completions = 1
    /\ calls[1].fn = "fatal"

IsSyncTask == IsMigrateTask /\ payload.action = "remove-sync-snapshots"

\* C13: in removeSyncSnapshots, when vm.uuid differs from payload.vm_uuid
\* and the marker file is absent, task.fatal is called exactly once and no
\* zfs list or zfs destroy is ever issued; the dataset names carry the
\* overriding uuid only when the marker file was found.
C13_OverrideNeedsMarker ==
    (IsSyncTask /\ started) =>
        /\ (payload.vm.uuid # payload.vm_uuid /\ marker # "present") =>
              /\ marker = "absent"
              /\ Completions = 1
              /\ calls[1].fn = "fatal"
              /\ sync = <<>>
              /\ datasets = <<>>
        /\ datasets \notin {<<>>, SyncDatasets(payload.vm)} =>
              /\ marker = "present"
              /\ datasets = OverrideDatasets(SyncDatasets(payload.vm),
                                payload.vm.uuid, payload.vm_uuid)
        /\ \A d \in DOMAIN sync : \A i \in DOMAIN sync[d].cmds :
              Contains(sync[d].cmds[i].target, <<payload.vm_uuid>>)

C13_Witness ==
    /\ IsSyncTask
    /\ started
    /\ payload.vm.uuid # payload.vm_uuid
    /\ marker = "absent"
    /\ Completions = 1
    /\ calls[1].fn = "fatal"
    /\ sync = <<>>

\* C14: a task delegated to a worker session eventually calls finish or
\* fatal once the worker has terminated or has failed to start, the events
\* being delivered fairly.
C14_SessionCompletes ==
    (IsChildTask /\ worker \in {"exited", "failed"}) ~> (calls # <<>>)

\* C15: the 'exit' event of a worker, handled after a result message was
\* handled, makes no call to task.finish or task.fatal, whatever the exit
\* code or signal.
C15_ExitAfterResultIsSilent ==
    [][(worker = "exited" /\ worker' = "reaped" /\ handledResponse) =>
          calls' = calls]_vars

C15_Witness ==
    /\ worker = "reaped"
    /\ handledResponse
    /\ exitStatus[1] = Num(1)
    /\ Completions = 1
    /\ calls[1].fn = "finish"

\* C16: only the first 'message' event of a worker is consumed: it
\* disconnects the IPC channel, once; every later message changes no state
\* of the session and makes no finish, fatal or disconnect call.
C16_OnlyFirstMessageConsumed ==
    [][/\ (ipc # <<>> /\ ipc' = Tail(ipc) /\ ~onceCalled) =>
             /\ disconnects = 0
             /\ disconnects' = 1
       /\ (ipc # <<>> /\ ipc' = Tail(ipc) /\ onceCalled) =>
             UNCHANGED <<calls, handledResponse, onceCalled, disconnects,
                         limitedStderr, worker, exitStatus, errorEvent>>
       /\ disconnects' <= 1]_vars

C16_Witness ==
    /\ worker = "running"
    /\ nSent = 2
    /\ ipc = <<>>
    /\ onceCalled
    /\ disconnects = 1
    /\ Completions = 1

\* the functions of the estimateOneDataset pipeline, in order
PipelineOrder ==
    <<"deletePreviousSnapshot", "createSnapshot", "getEstimate", "cleanupSnapshot">>

\* the pipeline functions started, in order
StepsOf(trace) ==
    SelectSeq(trace, LAMBDA e : \E i \in DOMAIN PipelineOrder : e = PipelineOrder[i])

\* C17: the steps of one per-dataset pipeline start in the order
\* deletePreviousSnapshot, createSnapshot, getEstimate, cleanupSnapshot, one
\* at a time, each after the one before it succeeded; after a step failed no
\* later step is started.
C17_StepsInOrder ==
    \A d \in DOMAIN pipe :
        LET steps == StepsOf(pipe[d].trace)
        IN  /\ Len(steps) \in 1..Len(PipelineOrder)
            /\ steps = SubSeq(PipelineOrder, 1, Len(steps))
            /\ pipe[d].step # "done" =>
                  /\ pipe[d].step = steps[Len(steps)]
                  /\ pipe[d].failedStep = ""
            /\ pipe[d].failedStep # "" =>
                  /\ pipe[d].step = "done"
                  /\ pipe[d].failedStep = steps[Len(steps)]
            /\ (pipe[d].step = "done" /\ pipe[d].failedStep = "") =>
                  steps = PipelineOrder

C17_Witness ==
    \E d \in DOMAIN pipe :
        /\ pipe[d].failedStep = "createSnapshot"
        /\ pipe[d].step = "done"
        /\ StepsOf(pipe[d].trace) = SubSeq(PipelineOrder, 1, 2)

\* C18: when a per-dataset pipeline failed with error E and the compensating
\* deleteSnapshot failed with E2, every report for the dataset and the error
\* given to task.fatal carry E; E2 is not reported to forEachParallel nor to
\* the task.
C18_OriginalErrorSurfaces ==
    IsEstimateTask =>
        /\ \A d \in DOMAIN pipe :
              /\ \A i \in DOMAIN pipe[d].reports :
                    pipe[d].reports[i] = pipe[d].err
              /\ par.status[d] = "fail" => par.errs[d] = pipe[d].err
        /\ \A i \in DOMAIN calls :
              calls[i].fn = "fatal" =>
                  \A j \in DOMAIN calls[i].arg.multi :
                      \E d \in DOMAIN pipe :
                          /\ pipe[d].err # Null
                          /\ calls[i].arg.multi[j] = pipe[d].err

C18_Witness ==
    /\ IsEstimateTask
    /\ \E d \in DOMAIN pipe :
          /\ pipe[d].failedStep = "getEstimate"
          /\ pipe[d].comp = "done"
          /\ pipe[d].lastDel.cbs[1] # Null
          /\ pipe[d].lastDel.cbs[1] # pipe[d].err
          /\ calls # <<>>
          /\ calls[1].fn = "fatal"
          /\ \E j \in DOMAIN calls[1].arg.multi :
                calls[1].arg.multi[j] = pipe[d].err

AllReported == \A d \in DOMAIN par.status : par.status[d] # "pending"

\* C19: the estimate task calls finish only if every dataset's pipeline
\* completed without error; it calls neither finish nor fatal before every
\* pipeline has reported; if a pipeline failed the task ends with fatal
\* carrying the error of a failed dataset, never with finish.
C19_AllOrNothing ==
    IsEstimateTask =>
        /\ calls # <<>> => AllReported
        /\ \A i \in DOMAIN calls :
              calls[i].fn = "finish" =>
                  \A d \in DOMAIN pipe : par.status[d] = "ok" /\ pipe[d].err = Null
        /\ (started /\ AllReported /\ \E d \in DOMAIN pipe : par.status[d] = "fail") =>
              /\ calls # <<>>
              /\ \A i \in DOMAIN calls : calls[i].fn = "fatal"
              /\ calls[1].arg.multi # <<>>
              /\ \A j \in DOMAIN calls[1].arg.multi :
                    \E d \in DOMAIN pipe :
                        /\ par.status[d] = "fail"
                        /\ calls[1].arg.multi[j] = par.errs[d]

C19_Witness ==
    /\ IsEstimateTask
    /\ AllReported
    /\ \E d, e \in DOMAIN pipe : par.status[d] = "ok" /\ par.status[e] = "fail"
    /\ Completions = 1
    /\ calls[1].fn = "fatal"

\* the number of bytes of buf that come from the worker's stderr
RECURSIVE StreamLen(_)
StreamLen(buf) ==
    IF buf = <<>> THEN 0
    ELSE (IF buf[1].src = "stderr" THEN buf[1].hi - buf[1].lo + 1 ELSE 0)
            + StreamLen(Tail(buf))

\* C20 as stated: after every stderr data event the captured buffer holds at
\* most 5000 bytes.
C20_BufferAtMost5000 ==
    BufLen(limitedStderr.bytes) <= StderrLimit

\* C20: after every stderr data event the captured buffer holds at most 5000
\* bytes of the worker's output and, once it was cut, the five bytes of the
\* elision marker besides: at most 5005 bytes.
C20_BufferAtMostLimitPlusMarker ==
    /\ StreamLen(limitedStderr.bytes) <= StderrLimit
    /\ BufLen(limitedStderr.bytes) <= StderrLimit + BufLen(ElisionMarker)

C20_Witness ==
    /\ nFrags >= 2
    /\ StreamLen(limitedStderr.bytes) = StderrLimit
    /\ BufLen(limitedStderr.bytes) = StderrLimit + BufLen(ElisionMarker)

\* line 365: the error of a getEstimate whose output has no size line
NoEstimateError ==
    [message |-> <<"Unable to get zfs send estimate">>, stderr |-> <<>>]

\* C21: a getEstimate step ends in one of two ways: it succeeds, the next
\* step of its pipeline starts and the running total grows by the size the
\* dry run printed; or it fails (the command failed, or the last line of its
\* output is not `size <integer>`), its pipeline ends with an error and the
\* total is left as it was.  No other step changes the total.
C21_ParseOrFail ==
    [][/\ \A d \in DOMAIN pipe :
             (/\ d \in DOMAIN pipe'
              /\ pipe[d].step = "getEstimate"
              /\ pipe'[d].step # "getEstimate") =>
                 \/ /\ pipe'[d].step = "cleanupSnapshot"
                    /\ pipe'[d].err = Null
                    /\ estimatedSize' = estimatedSize + DatasetSize(d)
                 \/ /\ pipe'[d].step = "done"
                    /\ pipe'[d].failedStep = "getEstimate"
                    /\ pipe'[d].err # Null
                    /\ estimatedSize' = estimatedSize
       /\ estimatedSize' # estimatedSize =>
             \E d \in DOMAIN pipe :
                 /\ d \in DOMAIN pipe'
                 /\ pipe[d].step = "getEstimate"
                 /\ pipe'[d].step = "cleanupSnapshot"
                 /\ \A e \in DOMAIN pipe \ {d} : pipe'[e] = pipe[e]]_vars

C21_Witness ==
    /\ IsEstimateTask
    /\ \E d, e \in DOMAIN pipe :
          /\ pipe[d].failedStep = "getEstimate"
          /\ pipe[d].err = NoEstimateError
          /\ pipe[e].step = "cleanupSnapshot"
          /\ estimatedSize = DatasetSize(e)

\* C23: once killChild has run the task has made exactly one completion
\* call: fatal when payload.pid is missing (the code's test is !pid),
\* finish otherwise, whatever the probes found; in particular when every
\* identity check passed and process.kill(pid, 'SIGTERM') threw, the call is
\* finish().
C23_KillCompletesOnce ==
    (IsKillTask /\ started) =>
        /\ Completions = 1
        /\ ~crashed
        /\ Falsy(payload.pid) <=> calls[1].fn = "fatal"
        /\ ~Falsy(payload.pid) <=> (probes.run /\ calls = <<FinishCall(Undefined)>>)
        /\ (SigtermSent /\ probes.killThrows) =>
              /\ AllChecksPassed
              /\ calls = <<FinishCall(Undefined)>>

C23_Witness ==
    /\ IsKillTask
    /\ started
    /\ probes.run
    /\ AllChecksPassed
    /\ probes.killThrows
    /\ sysops = <<"kill0", "ps", "readargv", "SIGTERM">>
    /\ calls = <<FinishCall(Undefined)>>

\* the i-th snapshot `zfs list` printed for dataset d
ListedSnapshot(d, i) == datasets[d] \o <<"@", "vm-migration-" \o ToString(i)>>

\* every destroySyncSnapshots pipeline has ended
AllSyncDone == \A d \in DOMAIN sync : sync[d].step = "done"

\* C22: for each dataset the first command is the list and at most one
\* command is outstanding; the i-th destroy targets the i-th snapshot listed
\* and is issued only when the list and every earlier destroy ended without
\* error, so a failed list issues no destroy and a failed destroy is the
\* dataset's last; a pipeline that ended without error destroyed every
\* snapshot listed.  The task makes no completion call before every dataset
\* has ended and exactly one then: finish when no dataset ended with an
\* error, fatal otherwise.
C22_ListThenDestroyInOrder ==
    (IsSyncTask /\ started /\ marker # "absent") =>
        /\ ~crashed
        /\ DOMAIN sync = DOMAIN datasets
        /\ \A d \in DOMAIN sync :
              LET q == sync[d]
              IN  /\ q.cmds[1] = [op |-> "list", target |-> datasets[d]]
                  /\ Len(q.cmds) - Len(q.results) \in {0, 1}
                  /\ Len(q.cmds) = Len(q.results) <=> q.step = "done"
                  /\ Len(q.cmds) - 1 <= Len(q.snapshots)
                  /\ \A i \in 2..Len(q.cmds) :
                        /\ q.cmds[i] = [op |-> "destroy",
                                        target |-> ListedSnapshot(d, i - 1)]
                        /\ \A j \in 1..(i - 1) : q.results[j] = Null
                  /\ q.step = "done" =>
                        /\ q.err = q.results[Len(q.results)]
                        /\ q.err = Null => Len(q.cmds) - 1 = Len(q.snapshots)
        /\ Completions <= 1
        /\ Completions = 1 <=> AllSyncDone
        /\ Completions = 1 =>
              IF \A d \in DOMAIN sync : sync[d].err = Null
              THEN calls = <<FinishCall(Undefined)>>
              ELSE calls[1].fn = "fatal"

C22_Witness ==
    /\ IsSyncTask
    /\ \E d, e \in DOMAIN sync :
          /\ Len(sync[d].cmds) = 3
          /\ Len(sync[d].results) = 3
          /\ sync[d].results[2] = Null
          /\ sync[d].results[3] # Null
          /\ Len(sync[e].snapshots) = 2
          /\ sync[e].err = Null
    /\ AllSyncDone
    /\ Completions = 1
    /\ calls[1].fn = "fatal"

\* C24: in the agentsshar install task the progress values reported never
\* decrease (50 when the download ended, 75 when the install ended, 100 when
\* the pipeline ended); _installShar is started only after a download that
\* ended without error; progress(100) is reported right before the
\* completion call; no completion call is made before the pipeline ended
\* and exactly one then: finish when no step failed, fatal with the step's
\* error otherwise.
C24_ProgressThenCompletion ==
    IsSharTask =>
        LET t == shar.trace
            prog == SelectSeq(t, LAMBDA e : e.ev = "progress")
            ends == SelectSeq(t, LAMBDA e : e.ev \in {"finish", "fatal"})
        IN  /\ \A i, j \in DOMAIN prog : i < j => prog[i].v < prog[j].v
            /\ \A i \in DOMAIN prog : prog[i].v \in {50, 75, 100}
            /\ \A i \in DOMAIN t :
                  t[i] = SharEvent("_installShar", 0) =>
                      /\ i > 1
                      /\ t[i - 1] = SharEvent("progress", 50)
                      /\ shar.err \notin DownloadErrors
            /\ \A i \in DOMAIN t :
                  t[i].ev \in {"finish", "fatal"} =>
                      /\ i = Len(t)
                      /\ i > 1
                      /\ t[i - 1] = SharEvent("progress", 100)
            /\ Len(ends) = Completions
            /\ Completions <= 1
            /\ Completions = 1 <=> shar.step = "done"
            /\ shar.step = "done" =>
                  /\ ends[1].ev = calls[1].fn
                  /\ IF shar.err = Null
                     THEN /\ calls = <<FinishCall(Undefined)>>
                          /\ prog = <<SharEvent("progress", 50),
                                      SharEvent("progress", 75),
                                      SharEvent("progress", 100)>>
                     ELSE calls = <<FatalCall(<<"Failed to install agentsshar: ">>
                                                 \o shar.err.message, Undefined)>>

C24_Witness ==
    /\ IsSharTask
    /\ shar.err \in InstallErrors
    /\ shar.trace = <<SharEvent("_downloadShar", 0),
                      SharEvent("progress", 50),
                      SharEvent("_installShar", 0),
                      SharEvent("progress", 75),
                      SharEvent("progress", 100),
                      SharEvent("fatal", 0)>>
    /\ Completions = 1
    /\ calls[1].fn = "fatal"

\* /proc/<pid>/argv of a worker startChildProcess forked (lines 41-53)
WorkerArgvs ==
    {<<"node", "\\0">> \o Binfn(a) \o <<"\\0">> : a \in {"sync", "receive"}}

\* C25: a kill task given the pid of a running worker that
\* startChildProcess forked and the ppid stamped into the session's result,
\* with the worker alive under that parent in the global zone and its argv
\* readable, sends SIGTERM to the worker.
C25_WorkerIsKilled ==
    (/\ IsKillTask
     /\ probes.run
     /\ ~Falsy(payload.pid)
     /\ PidMatches(payload.ppid, ProcessPid.v)
     /\ probes.alive
     /\ ~probes.psFails
     /\ probes.ppid = ProcessPid.v
     /\ probes.zone = "global"
     /\ probes.argvReadable
     /\ probes.argv \in WorkerArgvs) => SigtermSent

====
